---- MODULE Spec2Model ----
(***************************************************************************)
(* Model of torch/utils/data/_utils/fetch.py: the three dataset fetchers   *)
(* _IterableDatasetFetcher, _MapDatasetFetcher and _AsyncMapDatasetFetcher.*)
(* One fetcher instance is modelled at a time; "variant" says which class  *)
(* was constructed.                                                        *)
(***************************************************************************)
EXTENDS Integers, Sequences, FiniteSets, TLC

\* ------------------------------------------------------------------ bounds
MaxPos   == 2   \* positions (dataset indices) are 1..MaxPos
MaxBatch == 2   \* longest position batch handed to fetch
MaxN     == 3   \* longest iterable dataset
MaxIterBatch == 4  \* longest batch handed to the iterable fetcher
MaxCalls == 4   \* fetch calls made on the iterable fetcher
MaxW     == 2   \* largest num_fetch_workers

Pos     == 1..MaxPos
Batches == UNION {[1..n -> Pos] : n \in 0..MaxBatch}
\* The iterable fetcher never reads the positions it is given, only how many
\* there are: its batches repeat one position.
IterBatches == UNION {[1..n -> {p}] : n \in 0..MaxIterBatch, p \in Pos}
Threads == {"T1", "T2"}
NoThread == "None"

VARIABLES
  variant,           \* "iter" | "map" | "async": the fetcher class constructed
  auto_collation,    \* _BaseDatasetFetcher.auto_collation
  drop_last,         \* _BaseDatasetFetcher.drop_last
  possibly_batched_index, \* argument of the last fetch call (iter, map)
  outcome,           \* what the last fetch call did (iter, map)
  \* --- _IterableDatasetFetcher
  items,             \* the iterable dataset: items[k] = TRUE yields a sample,
                     \* FALSE makes next() raise an error
  dataset_iter,      \* cursor of iter(dataset): number of items consumed
  ended,             \* _IterableDatasetFetcher.ended
  next_calls,        \* next(self.dataset_iter) calls made so far
  ncalls,            \* fetch calls made so far
  nsucc,             \* fetch calls that returned a batch so far
  returned,          \* concatenation of the samples returned so far
  sizes,             \* set of len(possibly_batched_index) seen so far
  signaled,          \* some fetch call has raised StopIteration
  \* --- _MapDatasetFetcher / _AsyncMapDatasetFetcher dataset
  failing,           \* positions whose __getitem__ raises
  getitems,          \* "absent" | "none" | "callable": dataset.__getitems__
  calls,             \* dataset calls made by the last _MapDatasetFetcher.fetch
  \* --- _AsyncMapDatasetFetcher
  thread_pool_size,  \* num_fetch_workers
  callers,           \* threads that call fetch on the instance
  loop,              \* thread running self.loop, or NoThread
  ready,             \* self.loop's FIFO of runnable worker tasks
  work_queue,        \* self._executor's FIFO of retrievals awaiting a thread
  tpc,               \* per calling thread: position in fetch
  batch_indices,     \* per call: argument of fetch
  task_queue,        \* per call: asyncio.Queue of pending indices
  result_queue,      \* per call: asyncio.Queue of (index, result)
  unfinished_tasks,  \* per call: task_queue's unfinished task count
  wpc,               \* per call and worker: position in worker()
  windex,            \* per call and worker: the index being retrieved
  getitem_log,       \* per call: indices submitted to the executor, in order
  logged,            \* per call: (worker_id, index) of the exceptions reported
  result_list        \* per call: the list handed to collate_fn

iterVars  == <<items, dataset_iter, ended, next_calls, ncalls, nsucc,
               returned, sizes, signaled>>
mapVars   == <<getitems, calls>>
asyncVars == <<thread_pool_size, callers, loop, ready, work_queue, tpc,
               batch_indices,
               task_queue, result_queue, unfinished_tasks, wpc, windex,
               getitem_log, logged, result_list>>
cfgVars   == <<variant, auto_collation, drop_last, failing>>
vars == <<cfgVars, possibly_batched_index, outcome, iterVars, mapVars,
          asyncVars>>

\* ------------------------------------------------------------ the dataset
\* dataset[idx] / dataset.__getitem__(idx) when it does not raise.
Sample(idx) == 100 + idx

\* The sample the iterable dataset yields as its k-th item.
ItemSample(k) == 200 + k

RECURSIVE MapSeq(_, _)
MapSeq(s, i) ==
  IF i > Len(s) THEN <<>> ELSE <<Sample(s[i])>> \o MapSeq(s, i + 1)

\* [Sample(p) for p in s]
Samples(s) == MapSeq(s, 1)

NoOutcome == [kind |-> "none", shape |-> "none", data |-> <<>>]
\* fetch returned collate_fn(data); shape says whether data was a list or a
\* single sample.
Return(shape, data) == [kind |-> "return", shape |-> shape, data |-> data]
\* fetch raised StopIteration.
Exhausted == [kind |-> "StopIteration", shape |-> "none", data |-> <<>>]
\* fetch raised the dataset's own error.
SourceError == [kind |-> "error", shape |-> "none", data |-> <<>>]

\* ------------------------------------------------- _IterableDatasetFetcher
\* PullLoop with "except Exception" in place of "except StopIteration": an
\* item that raises an error ends the pull like the end of the data.
RECURSIVE PullLoopCatchAll(_, _, _, _)
PullLoopCatchAll(n, cur, data, k) ==
  IF n = 0
    THEN [data |-> data, cur |-> cur, stop |-> FALSE, err |-> FALSE, k |-> k]
  ELSE IF cur >= Len(items)
    THEN [data |-> data, cur |-> cur, stop |-> TRUE, err |-> FALSE,
          k |-> k + 1]
  ELSE IF ~items[cur + 1]
    THEN [data |-> data, cur |-> cur + 1, stop |-> TRUE, err |-> FALSE,
          k |-> k + 1]
  ELSE PullLoopCatchAll(n - 1, cur + 1, Append(data, ItemSample(cur + 1)),
                        k + 1)

\* The loop "for _ in possibly_batched_index: ... next(self.dataset_iter)":
\* n iterations left, cursor cur, data collected so far, k next() calls made.
RECURSIVE PullLoop(_, _, _, _)
PullLoop(n, cur, data, k) ==
  IF n = 0
    THEN [data |-> data, cur |-> cur, stop |-> FALSE, err |-> FALSE, k |-> k]
  ELSE IF cur >= Len(items)
    THEN [data |-> data, cur |-> cur, stop |-> TRUE, err |-> FALSE,
          k |-> k + 1]
  ELSE IF ~items[cur + 1]
    THEN [data |-> data, cur |-> cur + 1, stop |-> FALSE, err |-> TRUE,
          k |-> k + 1]
  ELSE PullLoop(n - 1, cur + 1, Append(data, ItemSample(cur + 1)), k + 1)

\* IterRaises without the drop_last test: a short batch is returned.
IterRaisesEmptyOnly(data, index) == Len(data) = 0

\* IterRaises with drop_last taken as set: a short batch is dropped.
IterRaisesAnyShort(data, index) ==
  Len(data) = 0 \/ Len(data) < Len(index)

\* The condition under which the batched branch raises StopIteration.
IterRaises(data, index) ==
  Len(data) = 0 \/ (drop_last /\ Len(data) < Len(index))

\* IterFetchResult without the auto_collation test: the batched branch runs
\* whatever the configuration.
IterFetchResultAlwaysBatched(index) ==
  IF ended THEN
    [out |-> Exhausted, cur |-> dataset_iter, ended |-> TRUE, k |-> 0]
  ELSE
    LET r == PullLoop(Len(index), dataset_iter, <<>>, 0) IN
      [out   |-> IF r.err THEN SourceError
                 ELSE IF IterRaises(r.data, index) THEN Exhausted
                 ELSE Return("list", r.data),
       cur   |-> r.cur,
       ended |-> r.stop,
       k     |-> r.k]

\* The outcome of _IterableDatasetFetcher.fetch(index) in the current state:
\* the fetch outcome and the new cursor, ended flag and next() count.
IterFetchResult(index) ==
  IF ended THEN
    [out |-> Exhausted, cur |-> dataset_iter, ended |-> TRUE, k |-> 0]
  ELSE IF auto_collation THEN
    LET r == PullLoop(Len(index), dataset_iter, <<>>, 0) IN
      [out   |-> IF r.err THEN SourceError
                 ELSE IF IterRaises(r.data, index) THEN Exhausted
                 ELSE Return("list", r.data),
       cur   |-> r.cur,
       ended |-> r.stop,
       k     |-> r.k]
  ELSE
    LET r == PullLoop(1, dataset_iter, <<>>, 0) IN
      [out   |-> IF r.err THEN SourceError
                 ELSE IF r.stop THEN Exhausted
                 ELSE Return("single", r.data),
       cur   |-> r.cur,
       ended |-> FALSE,
       k     |-> r.k]

IterFetch(index) ==
  /\ variant = "iter"
  /\ ncalls < MaxCalls
  /\ LET r == IterFetchResult(index) IN
       /\ outcome' = r.out
       /\ dataset_iter' = r.cur
       /\ ended' = r.ended
       /\ next_calls' = next_calls + r.k
       /\ nsucc' = IF r.out.kind = "return" THEN nsucc + 1 ELSE nsucc
       /\ returned' = returned \o r.out.data
       /\ signaled' = (signaled \/ r.out.kind = "StopIteration")
  /\ ncalls' = ncalls + 1
  /\ sizes' = sizes \cup {Len(index)}
  /\ possibly_batched_index' = index
  /\ UNCHANGED <<cfgVars, items, mapVars, asyncVars>>

\* ------------------------------------------------------ _MapDatasetFetcher
\* HasGetitems without the truth test of the attribute.
HasGetitemsAttribute == getitems # "absent"

\* hasattr(self.dataset, "__getitems__") and self.dataset.__getitems__
HasGetitems == getitems = "callable"

GetitemsCall(index) == [op |-> "__getitems__", arg |-> index]
GetitemCall(idx)    == [op |-> "__getitem__", arg |-> <<idx>>]
KeyCall(index)      == [op |-> "__getitem__(key)", arg |-> index]

Raises(index) == \E i \in 1..Len(index) : index[i] \in failing

\* [self.dataset[idx] for idx in index]: the calls made and the data built,
\* from element i on; stops at the first call that raises.
RECURSIVE Comprehension(_, _, _, _)
Comprehension(index, i, cs, data) ==
  IF i > Len(index) THEN [calls |-> cs, data |-> data, err |-> FALSE]
  ELSE IF index[i] \in failing
    THEN [calls |-> Append(cs, GetitemCall(index[i])), data |-> data,
          err |-> TRUE]
  ELSE Comprehension(index, i + 1, Append(cs, GetitemCall(index[i])),
                     Append(data, Sample(index[i])))

\* The outcome of _MapDatasetFetcher.fetch(index) and the dataset calls made.
MapFetchResult(index) ==
  IF auto_collation THEN
    IF HasGetitems THEN
      [calls |-> <<GetitemsCall(index)>>,
       out   |-> IF Raises(index) THEN SourceError
                 ELSE Return("list", Samples(index))]
    ELSE
      LET r == Comprehension(index, 1, <<>>, <<>>) IN
        [calls |-> r.calls,
         out   |-> IF r.err THEN SourceError ELSE Return("list", r.data)]
  ELSE
    [calls |-> <<KeyCall(index)>>,
     out   |-> IF Raises(index) THEN SourceError
               ELSE Return("single", Samples(index))]

MapFetch(index) ==
  /\ variant = "map"
  /\ LET r == MapFetchResult(index) IN
       /\ outcome' = r.out
       /\ calls' = r.calls
  /\ possibly_batched_index' = index
  /\ UNCHANGED <<cfgVars, iterVars, getitems, asyncVars>>

\* ------------------------------------------------ _AsyncMapDatasetFetcher
\* range(self.thread_pool_size): the worker ids of one call.
Workers == 0..(thread_pool_size - 1)

\* [asyncio.create_task(self.worker(i, ...)) for i in range(...)]: the tasks
\* of call t in the order the loop will first run them.
RECURSIVE CreateTasks(_, _)
CreateTasks(t, i) ==
  IF i >= thread_pool_size THEN <<>>
  ELSE <<<<t, i>>>> \o CreateTasks(t, i + 1)

\* result_list.sort(key=lambda v: v[0]): insert pair v into the sorted list
\* s after every element whose key is not greater (the sort is stable).
RECURSIVE SortInsert(_, _)
SortInsert(s, v) ==
  IF s = <<>> THEN <<v>>
  ELSE IF s[1][1] <= v[1] THEN <<s[1]>> \o SortInsert(Tail(s), v)
  ELSE <<v>> \o s

\* SortByIndex left out: the list stays in completion order.
SortByIndexOmitted(s) == s

RECURSIVE SortByIndex(_)
SortByIndex(s) ==
  IF s = <<>> THEN <<>>
  ELSE SortInsert(SortByIndex(SubSeq(s, 1, Len(s) - 1)), s[Len(s)])

\* Retrievals a pool thread is executing.
Running == {c \in Threads \X Workers : wpc[c[1]][c[2]] = "running"}

\* fetch, line 146: loop.run_until_complete refuses a loop it sees running
\* (RuntimeError); otherwise the call goes on to run the loop.  The fetcher
\* takes no lock, so the test and the start of the loop are two steps.  What
\* is left of the previous call's finished worker tasks and of the report of
\* its exceptions is dropped; result_list keeps the previous call's list
\* until this call builds its own.
FetchCall(t, index) ==
  /\ variant = "async"
  /\ t \in callers
  /\ tpc[t] \in {"idle", "returned", "RuntimeError"}
  /\ batch_indices' = [batch_indices EXCEPT ![t] = index]
  /\ tpc' = [tpc EXCEPT ![t] = IF loop = NoThread THEN "entered"
                                ELSE "RuntimeError"]
  /\ logged' = [logged EXCEPT ![t] = <<>>]
  /\ getitem_log' = [getitem_log EXCEPT ![t] = <<>>]
  /\ wpc' = [wpc EXCEPT ![t] = [w \in Workers |-> "none"]]
  /\ windex' = [windex EXCEPT ![t] = [w \in Workers |-> 0]]
  /\ UNCHANGED <<cfgVars, possibly_batched_index, outcome, iterVars, mapVars,
                 thread_pool_size, callers, loop, ready, work_queue,
                 task_queue, result_queue, unfinished_tasks, result_list>>

\* The calling thread starts running the loop, which runs
\* initiate_fetch_tasks up to its await (lines 107-117): fresh queues, the
\* indices loaded, the worker tasks created.
InitiateFetchTasks(t) ==
  /\ variant = "async"
  /\ tpc[t] = "entered"
  /\ loop' = t
  /\ tpc' = [tpc EXCEPT ![t] = "gather"]
  /\ task_queue' = [task_queue EXCEPT ![t] = batch_indices[t]]
  /\ unfinished_tasks' =
       [unfinished_tasks EXCEPT ![t] = Len(batch_indices[t])]
  /\ result_queue' = [result_queue EXCEPT ![t] = <<>>]
  /\ wpc' = [wpc EXCEPT ![t] = [w \in Workers |-> "created"]]
  /\ windex' = [windex EXCEPT ![t] = [w \in Workers |-> 0]]
  /\ ready' = ready \o CreateTasks(t, 0)
  /\ UNCHANGED <<cfgVars, possibly_batched_index, outcome, iterVars, mapVars,
                 thread_pool_size, callers, work_queue, batch_indices,
                 getitem_log, logged, result_list>>

\* AfterRetrieval without the except clause: the dataset's exception leaves
\* the worker.
AfterRetrievalUncaught(t, w) ==
  LET index == windex[t][w] IN
    IF wpc[t][w] # "wakeup" THEN
      [rq |-> result_queue[t], log |-> logged[t],
       unfinished |-> unfinished_tasks[t], raised |-> FALSE]
    ELSE IF index \in failing THEN
      [rq |-> result_queue[t], log |-> logged[t],
       unfinished |-> unfinished_tasks[t] - 1, raised |-> TRUE]
    ELSE
      [rq |-> Append(result_queue[t], <<index, Sample(index)>>),
       log |-> logged[t], unfinished |-> unfinished_tasks[t] - 1,
       raised |-> FALSE]

\* Lines 88-94 after the retrieval of windex[t][w] ended: what the worker
\* leaves in result_queue and in the report of exceptions, and whether an
\* exception leaves the worker ("except Exception" catches the dataset's).
AfterRetrieval(t, w) ==
  LET index == windex[t][w] IN
    IF wpc[t][w] # "wakeup" THEN
      [rq |-> result_queue[t], log |-> logged[t],
       unfinished |-> unfinished_tasks[t], raised |-> FALSE]
    ELSE IF index \in failing THEN
      [rq |-> result_queue[t], log |-> Append(logged[t], <<w, index>>),
       unfinished |-> unfinished_tasks[t] - 1, raised |-> FALSE]
    ELSE
      [rq |-> Append(result_queue[t], <<index, Sample(index)>>),
       log |-> logged[t], unfinished |-> unfinished_tasks[t] - 1,
       raised |-> FALSE]

\* WhileNotEmpty reading the head of task_queue without taking it off.
WhileNotEmptyPeek(t, w) ==
  IF task_queue[t] = <<>> THEN
    [pc |-> "done", index |-> windex[t][w], tq |-> task_queue[t],
     submitted |-> FALSE]
  ELSE
    [pc |-> IF Cardinality(Running) < thread_pool_size THEN "running"
            ELSE "queued",
     index |-> Head(task_queue[t]), tq |-> task_queue[t],
     submitted |-> TRUE]

\* WhileNotEmpty with "while True": the worker awaits task_queue.get() also
\* on an empty queue, where it stays suspended.
WhileNotEmptyAlwaysGet(t, w) ==
  IF task_queue[t] = <<>> THEN
    [pc |-> "get", index |-> windex[t][w], tq |-> task_queue[t],
     submitted |-> FALSE]
  ELSE
    [pc |-> IF Cardinality(Running) < thread_pool_size THEN "running"
            ELSE "queued",
     index |-> Head(task_queue[t]), tq |-> Tail(task_queue[t]),
     submitted |-> TRUE]

\* WhileNotEmpty with an executor that never makes a retrieval wait for a
\* free thread.
WhileNotEmptyNoPoolLimit(t, w) ==
  IF task_queue[t] = <<>> THEN
    [pc |-> "done", index |-> windex[t][w], tq |-> task_queue[t],
     submitted |-> FALSE]
  ELSE
    [pc |-> "running",
     index |-> Head(task_queue[t]), tq |-> Tail(task_queue[t]),
     submitted |-> TRUE]

\* Lines 86-89: the loop test, the take from task_queue and the submission to
\* the executor, which run without a suspension in between.
WhileNotEmpty(t, w) ==
  IF task_queue[t] = <<>> THEN
    [pc |-> "done", index |-> windex[t][w], tq |-> task_queue[t],
     submitted |-> FALSE]
  ELSE
    [pc |-> IF Cardinality(Running) < thread_pool_size THEN "running"
            ELSE "queued",
     index |-> Head(task_queue[t]), tq |-> Tail(task_queue[t]),
     submitted |-> TRUE]

\* The loop runs the task at the head of its ready list until the task's
\* next suspension: a worker() from its start or from the end of a retrieval.
WorkerStep ==
  /\ variant = "async"
  /\ ready # <<>>
  /\ LET t == Head(ready)[1]
         w == Head(ready)[2]
         a == AfterRetrieval(t, w)
         n == WhileNotEmpty(t, w)
     IN
       /\ wpc[t][w] \in {"created", "wakeup"}
       /\ result_queue' = [result_queue EXCEPT ![t] = a.rq]
       /\ logged' = [logged EXCEPT ![t] = a.log]
       /\ unfinished_tasks' = [unfinished_tasks EXCEPT ![t] = a.unfinished]
       /\ IF a.raised
            THEN /\ wpc' = [wpc EXCEPT ![t][w] = "failed"]
                 /\ UNCHANGED <<task_queue, windex, getitem_log, work_queue>>
            ELSE /\ task_queue' = [task_queue EXCEPT ![t] = n.tq]
                 /\ wpc' = [wpc EXCEPT ![t][w] = n.pc]
                 /\ windex' = [windex EXCEPT ![t][w] = n.index]
                 /\ getitem_log' =
                      [getitem_log EXCEPT ![t] =
                         IF n.submitted THEN Append(@, n.index) ELSE @]
                 /\ work_queue' =
                      IF n.pc = "queued" THEN Append(work_queue, <<t, w>>)
                      ELSE work_queue
  /\ ready' = Tail(ready)
  /\ UNCHANGED <<cfgVars, possibly_batched_index, outcome, iterVars, mapVars,
                 thread_pool_size, callers, loop, tpc, batch_indices,
                 result_list>>

\* A pool thread finishes dataset.__getitem__(index) for worker w of call t:
\* the worker becomes runnable again and the thread takes the next queued
\* retrieval, if any.
RunInExecutorDone(t, w) ==
  /\ variant = "async"
  /\ w \in Workers
  /\ wpc[t][w] = "running"
  /\ ready' = Append(ready, <<t, w>>)
  /\ IF work_queue = <<>>
       THEN /\ wpc' = [wpc EXCEPT ![t][w] = "wakeup"]
            /\ work_queue' = work_queue
       ELSE /\ wpc' = [wpc EXCEPT ![t][w] = "wakeup",
                                  ![Head(work_queue)[1]][Head(work_queue)[2]]
                                     = "running"]
            /\ work_queue' = Tail(work_queue)
  /\ UNCHANGED <<cfgVars, possibly_batched_index, outcome, iterVars, mapVars,
                 thread_pool_size, callers, loop, tpc, batch_indices,
                 task_queue, result_queue, unfinished_tasks, windex,
                 getitem_log, logged, result_list>>

\* while not result_queue.empty(): result_list.append(get_nowait())
RECURSIVE Drain(_)
Drain(q) == IF q = <<>> THEN <<>> ELSE <<Head(q)>> \o Drain(Tail(q))

\* GatherDone waiting for the first worker task only (asyncio.wait with
\* FIRST_COMPLETED in place of gather).
GatherDoneFirstCompleted(t) ==
  /\ variant = "async"
  /\ tpc[t] = "gather"
  /\ \E w \in Workers : wpc[t][w] \in {"done", "failed"}
  /\ result_list' =
       [result_list EXCEPT ![t] = SortByIndex(Drain(result_queue[t]))]
  /\ result_queue' = [result_queue EXCEPT ![t] = <<>>]
  /\ tpc' = [tpc EXCEPT ![t] = "returned"]
  /\ loop' = NoThread
  /\ UNCHANGED <<cfgVars, possibly_batched_index, outcome, iterVars, mapVars,
                 thread_pool_size, callers, ready, work_queue, batch_indices,
                 task_queue, unfinished_tasks, wpc, windex, getitem_log,
                 logged>>

\* GatherDone with result_list kept by the instance and never emptied: the
\* pairs of a call are added to those of the calls before it.
GatherDoneKeepsList(t) ==
  /\ variant = "async"
  /\ tpc[t] = "gather"
  /\ \A w \in Workers : wpc[t][w] \in {"done", "failed"}
  /\ result_list' =
       [result_list EXCEPT ![t] =
          SortByIndex(result_list[t] \o Drain(result_queue[t]))]
  /\ result_queue' = [result_queue EXCEPT ![t] = <<>>]
  /\ tpc' = [tpc EXCEPT ![t] = "returned"]
  /\ loop' = NoThread
  /\ UNCHANGED <<cfgVars, possibly_batched_index, outcome, iterVars, mapVars,
                 thread_pool_size, callers, ready, work_queue, batch_indices,
                 task_queue, unfinished_tasks, wpc, windex, getitem_log,
                 logged>>

\* Lines 117-129 and 146-147: every worker task has finished (returned, or
\* ended by an exception, which return_exceptions=True keeps in gather's
\* result), so gather returns; the results are drained, sorted and handed to
\* collate_fn (or returned as they are when collate_fn is None), and fetch
\* returns.
GatherDone(t) ==
  /\ variant = "async"
  /\ tpc[t] = "gather"
  /\ \A w \in Workers : wpc[t][w] \in {"done", "failed"}
  /\ result_list' =
       [result_list EXCEPT ![t] = SortByIndex(Drain(result_queue[t]))]
  /\ result_queue' = [result_queue EXCEPT ![t] = <<>>]
  /\ tpc' = [tpc EXCEPT ![t] = "returned"]
  /\ loop' = NoThread
  /\ UNCHANGED <<cfgVars, possibly_batched_index, outcome, iterVars, mapVars,
                 thread_pool_size, callers, ready, work_queue, batch_indices,
                 task_queue, unfinished_tasks, wpc, windex, getitem_log,
                 logged>>

\* ------------------------------------------------------------ construction
NoCall == [t \in Threads |-> <<>>]
NoWorkers(v) == [t \in Threads |-> [w \in Workers |-> v]]

IterDefaults ==
  /\ items = <<>> /\ dataset_iter = 0 /\ ended = FALSE /\ next_calls = 0
  /\ ncalls = 0 /\ nsucc = 0 /\ returned = <<>> /\ sizes = {}
  /\ signaled = FALSE

AsyncDefaults ==
  /\ loop = NoThread
  /\ ready = <<>>
  /\ work_queue = <<>>
  /\ tpc = [t \in Threads |-> "idle"]
  /\ batch_indices = NoCall
  /\ task_queue = NoCall
  /\ result_queue = NoCall
  /\ unfinished_tasks = [t \in Threads |-> 0]
  /\ wpc = NoWorkers("none")
  /\ windex = NoWorkers(0)
  /\ getitem_log = NoCall
  /\ logged = NoCall
  /\ result_list = NoCall

InitIter ==
  /\ variant = "iter"
  /\ auto_collation \in BOOLEAN
  /\ drop_last \in BOOLEAN
  /\ items \in UNION {[1..n -> BOOLEAN] : n \in 0..MaxN}
  /\ dataset_iter = 0 /\ ended = FALSE /\ next_calls = 0
  /\ ncalls = 0 /\ nsucc = 0 /\ returned = <<>> /\ sizes = {}
  /\ signaled = FALSE
  /\ failing = {} /\ getitems = "absent" /\ calls = <<>>
  /\ thread_pool_size = 1 /\ callers = {}
  /\ AsyncDefaults
  /\ possibly_batched_index = <<>> /\ outcome = NoOutcome

InitMap ==
  /\ variant = "map"
  /\ auto_collation \in BOOLEAN
  /\ drop_last \in BOOLEAN
  /\ failing \in SUBSET Pos
  /\ getitems \in {"absent", "none", "callable"}
  /\ calls = <<>>
  /\ IterDefaults
  /\ thread_pool_size = 1 /\ callers = {}
  /\ AsyncDefaults
  /\ possibly_batched_index = <<>> /\ outcome = NoOutcome

\* One thread calls fetch on the instance, one call at a time.
InitAsync ==
  /\ variant = "async"
  /\ auto_collation = TRUE
  /\ drop_last = FALSE
  /\ failing \in SUBSET Pos
  /\ getitems = "absent" /\ calls = <<>>
  /\ IterDefaults
  /\ thread_pool_size \in 1..MaxW
  /\ callers = {"T1"}
  /\ AsyncDefaults
  /\ possibly_batched_index = <<>> /\ outcome = NoOutcome

\* Two threads call fetch on the same instance.
InitReentrant ==
  /\ variant = "async"
  /\ auto_collation = TRUE
  /\ drop_last = FALSE
  /\ failing = {}
  /\ getitems = "absent" /\ calls = <<>>
  /\ IterDefaults
  /\ thread_pool_size \in 1..MaxW
  /\ callers = Threads
  /\ AsyncDefaults
  /\ possibly_batched_index = <<>> /\ outcome = NoOutcome

Init == InitIter \/ InitMap \/ InitAsync

NextAsync ==
  \/ \E t \in Threads, index \in Batches : FetchCall(t, index)
  \/ \E t \in Threads : InitiateFetchTasks(t)
  \/ WorkerStep
  \/ \E t \in Threads, w \in 0..(MaxW - 1) : RunInExecutorDone(t, w)
  \/ \E t \in Threads : GatherDone(t)

Next ==
  \/ \E index \in IterBatches : IterFetch(index)
  \/ \E index \in Batches : MapFetch(index)
  \/ NextAsync

ReentrantBatches == {<<1>>, <<2, 1>>}

NextReentrant ==
  \/ \E t \in Threads, index \in ReentrantBatches : FetchCall(t, index)
  \/ \E t \in Threads : InitiateFetchTasks(t)
  \/ WorkerStep
  \/ \E t \in Threads, w \in 0..(MaxW - 1) : RunInExecutorDone(t, w)
  \/ \E t \in Threads : GatherDone(t)

Spec == Init /\ [][Next]_vars

\* The concurrent fetcher with one calling thread, every retrieval ending
\* (returning or raising) and the loop running whatever is runnable: the
\* loop starts once fetch is entered, runs every ready task, and resumes
\* initiate_fetch_tasks when gather is complete.
Fairness ==
  /\ WF_vars(WorkerStep)
  /\ \A t \in Threads :
       /\ WF_vars(InitiateFetchTasks(t))
       /\ WF_vars(GatherDone(t))
       /\ \A w \in 0..(MaxW - 1) : WF_vars(RunInExecutorDone(t, w))

SpecLive == InitAsync /\ [][NextAsync]_vars /\ Fairness

\* ================================================================== claims
\* Helpers of the claims below.
Returned(t) == variant = "async" /\ tpc[t] = "returned"
NoneFails(index) == \A i \in 1..Len(index) : index[i] \notin failing
\* The entries of sequence s that satisfy Test.
Count(s, Test(_)) == Cardinality({i \in 1..Len(s) : Test(s[i])})
Seconds(s) == [i \in 1..Len(s) |-> s[i][2]]

\* C1: Concurrent Indexed Fetcher: for a non-empty batch none of whose
\* retrievals fails, the list handed to the collator has, at every place i,
\* the pair of batch_indices[i] and its sample: the order of the result is
\* the order of the input positions.  (The code sorts by position instead.)
C1_ResultInInputOrder ==
  \A t \in Threads :
    (Returned(t) /\ batch_indices[t] # <<>> /\ NoneFails(batch_indices[t]))
      => result_list[t] =
           [i \in 1..Len(batch_indices[t]) |->
              <<batch_indices[t][i], Sample(batch_indices[t][i])>>]

\* C2: Concurrent Indexed Fetcher, failing retrievals: fetch still returns;
\* every position of the batch was retrieved (the workers went on after a
\* failure); the result holds one pair per entry of the batch whose retrieval
\* succeeded, none for a failed one, and each failure was reported.
C2_FailedPositionsOmitted ==
  \A t \in Threads :
    Returned(t) =>
      LET index == batch_indices[t]
          nfail == Count(index, LAMBDA p : p \in failing)
      IN
        /\ Len(getitem_log[t]) = Len(index)
        /\ task_queue[t] = <<>>
        /\ \A w \in Workers : wpc[t][w] = "done"
        /\ Len(result_list[t]) = Len(index) - nfail
        /\ Len(logged[t]) = nfail
        /\ \A p \in Pos :
             Count(result_list[t], LAMBDA v : v[1] = p)
               = IF p \in failing THEN 0
                 ELSE Count(index, LAMBDA q : q = p)
        /\ \A i \in 1..Len(result_list[t]) :
             result_list[t][i][2] = Sample(result_list[t][i][1])

\* A call on two workers returned with one retrieval failed and reported and
\* another one delivered.
C2_Witness ==
  \E t \in Threads :
    /\ Returned(t)
    /\ thread_pool_size = 2
    /\ Len(batch_indices[t]) = 2
    /\ batch_indices[t][1] \in failing
    /\ logged[t] # <<>>
    /\ Len(result_list[t]) = 1

\* C4: Concurrent Indexed Fetcher with one worker: for a batch none of whose
\* retrievals fails, the samples handed to the collator are those the
\* Indexed Fetcher (batching enabled, no bulk retrieval) builds for the same
\* batch, in the same order.
C4_OneWorkerLikeIndexed ==
  \A t \in Threads :
    (Returned(t) /\ thread_pool_size = 1 /\ NoneFails(batch_indices[t]))
      => Seconds(result_list[t]) = MapFetchResult(batch_indices[t]).out.data

SpecReentrant == InitReentrant /\ [][NextReentrant]_vars

\* A step that is one fetch call on the iterable fetcher.
IterCall == variant = "iter" /\ ncalls' = ncalls + 1
IterDone == variant = "iter" /\ ncalls > 0
NoErrorItems == \A k \in 1..Len(items) : items[k]
RECURSIVE ItemSamples(_)
\* The samples of the first n items of an iterable dataset that raises none.
ItemSamples(n) == IF n = 0 THEN <<>> ELSE Append(ItemSamples(n - 1), ItemSample(n))
RECURSIVE SamplesFrom(_)
\* The samples the iterable dataset yields from item k on, in order.
SamplesFrom(k) ==
  IF k > Len(items) THEN <<>>
  ELSE IF items[k] THEN <<ItemSample(k)>> \o SamplesFrom(k + 1)
  ELSE SamplesFrom(k + 1)

\* C3: Sequential Fetcher: once a fetch call has raised StopIteration, every
\* later fetch call raises StopIteration and makes no next() call on the
\* dataset's iterator.
C3_StickyExhaustion ==
  [][(IterCall /\ signaled)
       => (outcome'.kind = "StopIteration" /\ next_calls' = next_calls)]_vars

\* C5: Sequential Fetcher, batching enabled, drop_last set: a returned batch
\* has exactly len(positions) samples; the call that marks the fetcher ended
\* and every later call raise StopIteration, so a short pull is never
\* returned; with a constant batch size b >= 1 on a dataset of n samples at
\* most n div b batches are returned, and exactly n div b have been when
\* StopIteration is raised.
C5_DropLastFullBatchesOnly ==
  (IterDone /\ auto_collation /\ drop_last) =>
    /\ outcome.kind = "return"
         => Len(outcome.data) = Len(possibly_batched_index)
    /\ ended => outcome.kind = "StopIteration"
    /\ \A b \in 1..MaxIterBatch :
         (sizes = {b} /\ NoErrorItems) =>
           /\ nsucc <= Len(items) \div b
           /\ returned = ItemSamples(nsucc * b)
           /\ outcome.kind = "StopIteration" => nsucc = Len(items) \div b

\* A dataset of 3 samples fetched with batch size 2 and drop_last: one batch
\* returned, the third sample pulled and dropped, then StopIteration.
C5_Witness ==
  /\ IterDone /\ auto_collation /\ drop_last
  /\ Len(items) = 3 /\ NoErrorItems /\ sizes = {2}
  /\ nsucc = 1 /\ dataset_iter = 3 /\ Len(returned) = 2
  /\ outcome.kind = "StopIteration"

\* C6: Sequential Fetcher, batching enabled, drop_last clear: a non-empty
\* short pull is returned (every sample pulled has been returned) and leaves
\* the fetcher ended, so the next call raises StopIteration; with a constant batch size b >= 1 on a dataset of n
\* samples, n not a multiple of b, the batches returned are n div b full ones
\* and then one of n mod b samples, and StopIteration is raised only after
\* all of them (the whole dataset) were returned.
C6_PartialBatchReturned ==
  (IterDone /\ auto_collation /\ ~drop_last) =>
    /\ (outcome.kind = "return"
          /\ Len(outcome.data) < Len(possibly_batched_index)) => ended
    /\ (ended /\ outcome.kind = "return")
         => IterFetchResult(possibly_batched_index).out = Exhausted
    /\ NoErrorItems => returned = ItemSamples(dataset_iter)
    /\ \A b \in 1..MaxIterBatch :
         (sizes = {b} /\ NoErrorItems /\ Len(items) % b # 0) =>
           /\ nsucc <= (Len(items) \div b) + 1
           /\ returned = ItemSamples(Len(returned))
           /\ (outcome.kind = "return" /\ nsucc <= Len(items) \div b)
                => Len(outcome.data) = b
           /\ (outcome.kind = "return" /\ nsucc = (Len(items) \div b) + 1)
                => (Len(outcome.data) = Len(items) % b /\ ended)
           /\ outcome.kind = "StopIteration"
                => (nsucc = (Len(items) \div b) + 1
                    /\ returned = ItemSamples(Len(items)))

\* A dataset of 3 samples fetched with batch size 4 and no drop_last: one
\* batch of 3 samples returned, then StopIteration.
C6_Witness ==
  /\ IterDone /\ auto_collation /\ ~drop_last
  /\ Len(items) = 3 /\ NoErrorItems /\ sizes = {4}
  /\ nsucc = 1 /\ Len(returned) = 3
  /\ outcome.kind = "StopIteration"

\* The dataset calls one per position of index, in list order.
PerPosition(index) == [i \in 1..Len(index) |-> GetitemCall(index[i])]
IsPrefix(s, r) == Len(s) <= Len(r) /\ s = SubSeq(r, 1, Len(s))
MapDone == variant = "map" /\ outcome.kind # "none"

\* C7: Indexed Fetcher, batching enabled: a dataset with a usable
\* __getitems__ gets exactly one call, __getitems__ with the position list as
\* given; any other dataset gets one __getitem__ call per position in list
\* order (up to the first one that raises); the data handed to the collator
\* is the samples of the positions in the order of the positions.
C7_BulkOrPerPosition ==
  (MapDone /\ auto_collation) =>
    /\ getitems = "callable"
         => calls = <<GetitemsCall(possibly_batched_index)>>
    /\ getitems # "callable"
         => /\ IsPrefix(calls, PerPosition(possibly_batched_index))
            /\ outcome.kind = "return"
                 => calls = PerPosition(possibly_batched_index)
    /\ outcome.kind = "return"
         => (outcome.shape = "list"
             /\ outcome.data =
                  [i \in 1..Len(possibly_batched_index) |->
                     Sample(possibly_batched_index[i])])

\* A dataset whose __getitems__ attribute is None was fetched position by
\* position with a batch that is not in ascending order.
C7_Witness ==
  /\ MapDone /\ auto_collation /\ getitems = "none"
  /\ outcome.kind = "return"
  /\ Len(possibly_batched_index) = 2
  /\ possibly_batched_index[1] > possibly_batched_index[2]
  /\ Len(calls) = 2

\* The batched pull of the iterable fetcher, begun in the current state for a
\* batch of n positions, meets an item whose next() raises an error.
PullMeetsError(n) ==
  \E k \in (dataset_iter + 1)..Len(items) :
    /\ k <= dataset_iter + n
    /\ ~items[k]
    /\ \A j \in (dataset_iter + 1)..(k - 1) : items[j]

\* C8: synchronous fetchers: a fetch call in which a dataset retrieval raises
\* an error other than StopIteration ends with that error: nothing is
\* returned or collated and StopIteration is not raised instead.  The Indexed
\* Fetcher never raises StopIteration.
C8_SourceErrorPropagates ==
  [][/\ (IterCall /\ ~ended
           /\ PullMeetsError(IF auto_collation
                               THEN Len(possibly_batched_index') ELSE 1))
          => (outcome' = SourceError /\ nsucc' = nsucc
              /\ returned' = returned /\ ~ended')
     /\ (variant = "map" /\ Raises(possibly_batched_index'))
          => outcome' = SourceError
     /\ variant = "map" => outcome'.kind # "StopIteration"]_vars

\* A batched fetch on the iterable fetcher pulled a sample and then met an
\* item that raises: the call ended with the error.
C8_Witness ==
  /\ IterDone /\ auto_collation
  /\ outcome.kind = "error"
  /\ dataset_iter >= 2
  /\ items[dataset_iter - 1] /\ ~items[dataset_iter]
  /\ Len(possibly_batched_index) >= 2
  /\ ncalls = 1

\* C9: Concurrent Indexed Fetcher: at most one fetch call of an instance has
\* its workers on the instance's loop at any time.
C9_OneCallInFlight ==
  Cardinality({t \in Threads : variant = "async" /\ tpc[t] = "gather"}) <= 1

\* C10: Sequential Fetcher, batching disabled: a fetch call that returns has
\* advanced the cursor by exactly one item whatever positions it was given,
\* and returns a single sample, not a list: the k-th call that returns
\* returns the k-th sample of the dataset.
C10_OneSamplePerCall ==
  [][(IterCall /\ ~auto_collation /\ outcome'.kind = "return")
       => /\ dataset_iter' = dataset_iter + 1
          /\ next_calls' = next_calls + 1
          /\ outcome'.shape = "single"
          /\ Len(SamplesFrom(1)) >= nsucc'
          /\ outcome'.data = <<SamplesFrom(1)[nsucc']>>]_vars

\* The second returning call of an unbatched fetcher, made with a batch of
\* three positions, has consumed two items.
C10_Witness ==
  /\ IterDone /\ ~auto_collation
  /\ outcome.kind = "return"
  /\ nsucc = 2 /\ dataset_iter = 2
  /\ Len(possibly_batched_index) = 3

\* Worker w of call t has been created and has not finished.
Outstanding(t, w) == wpc[t][w] \in {"created", "running", "queued", "wakeup"}
InCall(t) == variant = "async" /\ tpc[t] \in {"gather", "returned"}
Positions(index) == {index[i] : i \in 1..Len(index)}

\* C11: Concurrent Indexed Fetcher barrier: while a worker task of a call
\* has not finished (a retrieval it started is running or waiting, or its
\* result is not yet taken up), the call is still in gather and the completion
\* queue has not been drained; a call has returned only with every worker
\* task finished and no retrieval left.
C11_Barrier ==
  \A t \in Threads :
    /\ (variant = "async" /\ \E w \in Workers : Outstanding(t, w))
         => tpc[t] = "gather"
    /\ (variant = "async" /\ \E i \in 1..Len(ready) : ready[i][1] = t)
         => tpc[t] = "gather"
    /\ Returned(t)
         => (/\ \A w \in Workers : wpc[t][w] = "done"
             /\ \A i \in 1..Len(ready) : ready[i][1] # t
             /\ \A i \in 1..Len(work_queue) : work_queue[i][1] # t)

\* One worker of a call on two workers has finished and delivered while the
\* other's retrieval is still running: the call is waiting in gather.
C11_Witness ==
  \E t \in Threads :
    /\ variant = "async" /\ thread_pool_size = 2
    /\ tpc[t] = "gather"
    /\ wpc[t][0] = "done" /\ wpc[t][1] = "running"
    /\ result_queue[t] # <<>>

C14_ExactlyOnce ==
  \A t \in Threads :
    InCall(t) =>
      /\ getitem_log[t] \o task_queue[t] = batch_indices[t]
      /\ Len(getitem_log[t])
           = Cardinality({w \in Workers :
                            wpc[t][w] \in {"running", "queued", "wakeup"}})
             + Len(logged[t])
             + (IF tpc[t] = "returned" THEN Len(result_list[t])
                ELSE Len(result_queue[t]))
      /\ tpc[t] = "returned"
           => (task_queue[t] = <<>>
               /\ Len(getitem_log[t]) = Len(batch_indices[t]))

\* A call on two workers for a batch of two positions returned after the
\* two retrievals, one of which failed.
C14_Witness ==
  \E t \in Threads :
    /\ Returned(t) /\ thread_pool_size = 2
    /\ Len(batch_indices[t]) = 2
    /\ getitem_log[t] = batch_indices[t]
    /\ Len(logged[t]) = 1 /\ Len(result_list[t]) = 1

\* C16: Concurrent Indexed Fetcher per-call isolation: outside a call both
\* queues of the call are empty; in a call, every pending position and every
\* completed pair belongs to the call's batch; the list a call hands over
\* holds only pairs of positions of its own batch, at most one per entry of
\* the batch, whatever the calls before it did.
C16_PerCallIsolation ==
  \A t \in Threads :
    variant = "async" =>
      /\ tpc[t] # "gather"
           => (task_queue[t] = <<>> /\ result_queue[t] = <<>>)
      /\ tpc[t] = "gather"
           => /\ \A i \in 1..Len(task_queue[t]) :
                   task_queue[t][i] \in Positions(batch_indices[t])
              /\ \A i \in 1..Len(result_queue[t]) :
                   result_queue[t][i][1] \in Positions(batch_indices[t])
              /\ Len(task_queue[t]) + Len(result_queue[t])
                   <= Len(batch_indices[t])
      /\ tpc[t] = "returned"
           => /\ \A i \in 1..Len(result_list[t]) :
                   result_list[t][i][1] \in Positions(batch_indices[t])
              /\ \A p \in Pos :
                   Count(result_list[t], LAMBDA v : v[1] = p)
                     <= Count(batch_indices[t], LAMBDA q : q = p)

\* In a call for the batch <<1>>, made after a call that handed over the pair
\* of position 2, a worker has delivered the pair of position 1.
C16_Witness ==
  \E t \in Threads :
    /\ variant = "async" /\ tpc[t] = "gather"
    /\ batch_indices[t] = <<1>>
    /\ result_list[t] = <<<<2, Sample(2)>>>>
    /\ result_queue[t] = <<<<1, Sample(1)>>>>

\* C13: Concurrent Indexed Fetcher termination: when every retrieval ends,
\* a fetch call that was entered returns, with every worker task ended, for
\* every worker count and batch length; no worker stays suspended in
\* task_queue.get() on an empty queue.
C13_Terminates ==
  \A t \in Threads :
    (variant = "async" /\ tpc[t] = "entered")
      ~> (tpc[t] = "returned" /\ \A w \in Workers : wpc[t][w] = "done")

\* A call on two workers for a batch of one position has returned: the
\* second worker found the queue empty and ended.
C13_Witness ==
  \E t \in Threads :
    /\ Returned(t) /\ thread_pool_size = 2
    /\ Len(batch_indices[t]) = 1
    /\ getitem_log[t] = batch_indices[t]
    /\ \A w \in Workers : wpc[t][w] = "done"

\* C15: Concurrent Indexed Fetcher bounded parallelism: the retrievals that
\* pool threads are executing for one instance are never more than
\* thread_pool_size, also when two calls overlap on the instance; in one call
\* the retrievals submitted and not yet taken up are at most one per worker.
C15_BoundedParallelism ==
  /\ Cardinality(Running) <= thread_pool_size
  /\ \A t \in Threads :
       (variant = "async" /\ tpc[t] = "gather")
         => Len(getitem_log[t]) - Len(result_queue[t]) - Len(logged[t])
              <= thread_pool_size

\* Both workers of a call on two workers have a retrieval running.
C15_Witness ==
  \E t \in Threads :
    /\ variant = "async" /\ thread_pool_size = 2
    /\ wpc[t][0] = "running" /\ wpc[t][1] = "running"
    /\ Cardinality(Running) = 2

====
